---------------------------- MODULE Spec2Model ----------------------------
(***************************************************************************)
(* A model of multiple_proxy (src/mod.ts): proxySocket opens a connection  *)
(* to the first proxy of a chain and tunnels hop by hop to a target,       *)
(* speaking SOCKS5, SOCKS4 or HTTP CONNECT.                                *)
(*                                                                         *)
(* Strings are sequences of character codes (ASCII), byte arrays are       *)
(* sequences of numbers 0..255, so TextEncoder.encode of an ASCII string   *)
(* is the sequence of its codes.  JavaScript's null, undefined and NaN are *)
(* the sentinels Null, Undefined and NaN.                                  *)
(***************************************************************************)
EXTENDS Integers, Sequences, FiniteSets, TLC

(***************************************************************************)
(* Bounds of the model.                                                    *)
(***************************************************************************)
\* longest proxy list given to proxySocket
MaxChain == 2
\* largest timeout, in timer ticks, given to proxySocket
MaxTimeout == 1
\* a read may resolve with as few as ShortRead of the bytes on their way
ShortRead == 2

(***************************************************************************)
(* JavaScript values.                                                      *)
(***************************************************************************)
Null == <<-1>>
Undefined == <<-2>>
NaN == 0 - 1

\* a string used as a condition: null, undefined and "" are falsy
Truthy(s) == s # Null /\ s # Undefined /\ s # <<>>

Min(S) == CHOOSE x \in S : \A y \in S : x <= y

IsDigit(c) == c >= 48 /\ c <= 57

\* String literals of the source.
SEP_SCHEME == <<58, 47, 47>>                       \* "://"
SEP_AT == <<64>>                                   \* "@"
SEP_COLON == <<58>>                                \* ":"
SEP_DOT == <<46>>                                  \* "."
CRLF == <<13, 10>>                                 \* "\r\n"
P_socks5 == <<115, 111, 99, 107, 115, 53>>         \* "socks5"
P_socks4 == <<115, 111, 99, 107, 115, 52>>         \* "socks4"
P_http == <<104, 116, 116, 112>>                   \* "http"
T_CONNECT == <<67, 79, 78, 78, 69, 67, 84, 32>>    \* "CONNECT "
T_HTTP11 == <<32, 72, 84, 84, 80, 47, 49, 46, 49, 13, 10>>   \* " HTTP/1.1\r\n"
T_Host == <<72, 111, 115, 116, 58, 32>>            \* "Host: "
\* "Proxy-Authorization: Basic "
T_ProxyAuth == <<80, 114, 111, 120, 121, 45, 65, 117, 116, 104, 111, 114, 105,
                 122, 97, 116, 105, 111, 110, 58, 32, 66, 97, 115, 105, 99, 32>>
\* "Proxy-Connection: keep-alive\r\n"
T_ProxyConn == <<80, 114, 111, 120, 121, 45, 67, 111, 110, 110, 101, 99, 116,
                 105, 111, 110, 58, 32, 107, 101, 101, 112, 45, 97, 108, 105,
                 118, 101, 13, 10>>
\* "Connection: keep-alive\r\n\r\n"
T_Conn == <<67, 111, 110, 110, 101, 99, 116, 105, 111, 110, 58, 32, 107, 101,
            101, 112, 45, 97, 108, 105, 118, 101, 13, 10, 13, 10>>
\* "200 connection established"
T_200 == <<50, 48, 48, 32, 99, 111, 110, 110, 101, 99, 116, 105, 111, 110, 32,
           101, 115, 116, 97, 98, 108, 105, 115, 104, 101, 100>>
T_NaN == <<78, 97, 78>>                            \* "NaN"
\* the base64 alphabet of btoa
B64 == <<65, 66, 67, 68, 69, 70, 71, 72, 73, 74, 75, 76, 77, 78, 79, 80, 81,
         82, 83, 84, 85, 86, 87, 88, 89, 90, 97, 98, 99, 100, 101, 102, 103,
         104, 105, 106, 107, 108, 109, 110, 111, 112, 113, 114, 115, 116, 117,
         118, 119, 120, 121, 122, 48, 49, 50, 51, 52, 53, 54, 55, 56, 57, 43,
         47>>

(***************************************************************************)
(* String.prototype methods and number conversions used by the source.     *)
(***************************************************************************)
IsAt(s, sub, i) ==
  /\ i + Len(sub) - 1 <= Len(s)
  /\ SubSeq(s, i, i + Len(sub) - 1) = sub

\* the first index >= from at which sub occurs in s, 0 when there is none
IndexOf(s, sub, from) ==
  LET I == {i \in from..Len(s) : IsAt(s, sub, i)}
  IN IF I = {} THEN 0 ELSE Min(I)

\* s.includes(sub), sub not empty
includes(s, sub) == IndexOf(s, sub, 1) # 0

\* s.split(sep), sep not empty
RECURSIVE split(_, _)
split(s, sep) ==
  LET i == IndexOf(s, sep, 1)
  IN IF i = 0 THEN <<s>>
     ELSE <<SubSeq(s, 1, i - 1)>> \o split(SubSeq(s, i + Len(sep), Len(s)), sep)

\* destructuring: element i of an array, undefined past its end
At(arr, i) == IF i <= Len(arr) THEN arr[i] ELSE Undefined

toLowerCase(s) == [i \in 1..Len(s) |-> IF s[i] >= 65 /\ s[i] <= 90 THEN s[i] + 32 ELSE s[i]]

\* the value of a string of decimal digits
RECURSIVE DigitsValue(_)
DigitsValue(s) ==
  IF s = <<>> THEN 0 ELSE 10 * DigitsValue(SubSeq(s, 1, Len(s) - 1)) + (s[Len(s)] - 48)

\* the longest prefix of s made of decimal digits
DigitPrefix(s) ==
  LET stop == {i \in 1..Len(s) : ~IsDigit(s[i])}
  IN IF stop = {} THEN s ELSE SubSeq(s, 1, Min(stop) - 1)

\* parseInt(s): the leading decimal digits, NaN when there is none (s has no
\* leading blank, sign or radix prefix)
parseInt(s) == IF DigitPrefix(s) = <<>> THEN NaN ELSE DigitsValue(DigitPrefix(s))

\* Number(s): 0 for "", the value of a digit string, NaN otherwise (s is made
\* of digits, or holds a letter other than those of a number literal)
Number(s) ==
  IF s = <<>> THEN 0
  ELSE IF \A i \in 1..Len(s) : IsDigit(s[i]) THEN DigitsValue(s) ELSE NaN

\* `${n}` of a number
RECURSIVE DecimalDigits(_)
DecimalDigits(n) ==
  IF n < 10 THEN <<48 + n>> ELSE DecimalDigits(n \div 10) \o <<48 + (n % 10)>>

TemplateNumber(n) == IF n = NaN THEN T_NaN ELSE DecimalDigits(n)

\* an element stored into a Uint8Array: modulo 256, NaN stored as 0
ToUint8(x) == IF x = NaN THEN 0 ELSE x % 256

Uint8Array(xs) == [i \in 1..Len(xs) |-> ToUint8(xs[i])]

\* (n >> 8) & 0xff and n & 0xff; the bitwise operators take NaN as 0
HiByte(n) == IF n = NaN THEN 0 ELSE (n \div 256) % 256
LoByte(n) == IF n = NaN THEN 0 ELSE n % 256

\* new TextEncoder().encode(s): an ASCII string is its codes
encode(s) == [i \in 1..Len(s) |-> s[i] % 256]

\* globalThis.btoa(s)
RECURSIVE btoa(_)
btoa(s) ==
  IF s = <<>> THEN <<>>
  ELSE LET n  == Len(s)
           b1 == s[1]
           b2 == IF n >= 2 THEN s[2] ELSE 0
           b3 == IF n >= 3 THEN s[3] ELSE 0
           c1 == B64[(b1 \div 4) + 1]
           c2 == B64[((b1 % 4) * 16 + (b2 \div 16)) + 1]
           c3 == IF n >= 2 THEN B64[((b2 % 16) * 4 + (b3 \div 64)) + 1] ELSE 61
           c4 == IF n >= 3 THEN B64[(b3 % 64) + 1] ELSE 61
       IN <<c1, c2, c3, c4>> \o (IF n > 3 THEN btoa(SubSeq(s, 4, n)) ELSE <<>>)

(***************************************************************************)
(* ipAddrToBytes, isIPv4                                                   *)
(***************************************************************************)
MapNumber(parts) == [i \in 1..Len(parts) |-> Number(parts[i])]

ipAddrToBytes(ip) == Uint8Array(MapNumber(split(ip, SEP_DOT)))

\* one octet of the regular expression: 25[0-5]|2[0-4][0-9]|[01]?[0-9][0-9]?
OctetMatches(p) ==
  /\ Len(p) \in 1..3
  /\ \A i \in 1..Len(p) : IsDigit(p[i])
  /\ Len(p) = 3 =>
       \/ p[1] \in {48, 49}
       \/ p[1] = 50 /\ p[2] \in 48..52
       \/ p[1] = 50 /\ p[2] = 53 /\ p[3] \in 48..53

isIPv4(host) ==
  LET parts == split(host, SEP_DOT)
  IN Len(parts) = 4 /\ \A i \in 1..4 : OctetMatches(parts[i])

(***************************************************************************)
(* generatePacket: a result [ok, bytes, err]; ok = FALSE is a throw.       *)
(***************************************************************************)
Packet(bytes) == [ok |-> TRUE, bytes |-> bytes, err |-> ""]
Thrown(msg) == [ok |-> FALSE, bytes |-> <<>>, err |-> msg]

\* auth && auth.username
AuthUsername(auth) == IF auth = Undefined THEN Undefined ELSE auth[1]
AuthPassword(auth) == IF auth = Undefined THEN Undefined ELSE auth[2]

\* faulty variant: the length of the domain name is not checked
generatePacketSocks5_AnyLength(target) ==
  LET portBytes == <<HiByte(target[2]), LoByte(target[2])>>
      domainBytes == encode(target[1])
  IN IF isIPv4(target[1])
     THEN Packet(Uint8Array(<<5, 1, 0>> \o <<1>> \o ipAddrToBytes(target[1]) \o portBytes))
     ELSE Packet(Uint8Array(<<5, 1, 0>> \o <<3, Len(domainBytes)>> \o domainBytes
                            \o portBytes))

generatePacketSocks5(target) ==
  LET portBytes == <<HiByte(target[2]), LoByte(target[2])>>
      domainBytes == encode(target[1])
  IN IF isIPv4(target[1])
     THEN Packet(Uint8Array(<<5, 1, 0>> \o <<1>> \o ipAddrToBytes(target[1]) \o portBytes))
     ELSE IF Len(domainBytes) > 255
          THEN Thrown("SOCKS5: domain name too long")
          ELSE Packet(Uint8Array(<<5, 1, 0>> \o <<3, Len(domainBytes)>> \o domainBytes
                                 \o portBytes))

generatePacketSocks4(target, auth) ==
  LET userIdBytes == IF Truthy(AuthUsername(auth)) THEN encode(AuthUsername(auth)) ELSE <<>>
  IN Packet(Uint8Array(<<4, 1, HiByte(target[2]), LoByte(target[2])>>
                       \o ipAddrToBytes(target[1]) \o userIdBytes \o <<0>>))

generatePacketHttp(target, auth) ==
  LET hostPort == target[1] \o SEP_COLON \o TemplateNumber(target[2])
      credentials == AuthUsername(auth) \o SEP_COLON
                     \o (IF Truthy(AuthPassword(auth)) THEN AuthPassword(auth) ELSE <<>>)
      authHeader == IF Truthy(AuthUsername(auth))
                    THEN T_ProxyAuth \o btoa(credentials) \o CRLF
                    ELSE <<>>
  IN Packet(encode(T_CONNECT \o hostPort \o T_HTTP11 \o T_Host \o hostPort \o CRLF
                   \o authHeader \o T_ProxyConn \o T_Conn))

generatePacket(protocol, target, auth) ==
  IF protocol = P_socks5 THEN generatePacketSocks5(target)
  ELSE IF protocol = P_socks4 THEN generatePacketSocks4(target, auth)
  ELSE IF protocol = P_http THEN generatePacketHttp(target, auth)
  ELSE Thrown("Unsupported protocol for generating packet")

(***************************************************************************)
(* checkResponse                                                           *)
(***************************************************************************)
\* faulty variant: the whole HTTP response is searched, not its first line
checkResponse_WholeText(protocol, data) ==
  IF protocol = P_socks5 THEN Len(data) >= 2 /\ data[1] = 5 /\ data[2] = 0
  ELSE IF protocol = P_socks4 THEN Len(data) >= 2 /\ data[1] = 0 /\ data[2] = 90
  ELSE IF protocol = P_http
       THEN includes(toLowerCase(data), T_200)
       ELSE FALSE

checkResponse(protocol, data) ==
  IF protocol = P_socks5 THEN Len(data) >= 2 /\ data[1] = 5 /\ data[2] = 0
  ELSE IF protocol = P_socks4 THEN Len(data) >= 2 /\ data[1] = 0 /\ data[2] = 90
  ELSE IF protocol = P_http
       THEN includes(toLowerCase(split(data, CRLF)[1]), T_200)
       ELSE FALSE

(***************************************************************************)
(* parseProxy: <<protocol, host, portNum, username, password>>.  It throws *)
(* a TypeError (origin is undefined) when the string holds no "://".       *)
(***************************************************************************)
parseProxyThrows(proxy) == At(split(proxy, SEP_SCHEME), 2) = Undefined

parseProxy(proxy) ==
  LET protocol == At(split(proxy, SEP_SCHEME), 1)
      origin == At(split(proxy, SEP_SCHEME), 2)
      authAddr == IF includes(origin, SEP_AT) THEN split(origin, SEP_AT) ELSE <<<<>>, origin>>
      auth == At(authAddr, 1)
      address == At(authAddr, 2)
      userPass == IF includes(auth, SEP_COLON) THEN split(auth, SEP_COLON) ELSE <<auth, <<>>>>
      rawUsername == At(userPass, 1)
      rawPassword == At(userPass, 2)
      host == At(split(address, SEP_COLON), 1)
      port == At(split(address, SEP_COLON), 2)
      portNum == IF Truthy(port) THEN parseInt(port) ELSE 1080
      username == IF rawUsername # <<>> THEN rawUsername ELSE Null
      password == IF rawPassword # <<>> THEN rawPassword ELSE Null
  IN <<protocol, host, portNum, username, password>>

(***************************************************************************)
(* Inputs of the model: proxy specifier strings, targets, and the chunks   *)
(* of bytes a peer may answer a read with.                                 *)
(***************************************************************************)
X_socks5_auth == <<115, 111, 99, 107, 115, 53, 58, 47, 47, 117, 58, 112, 64, 97,
                   58, 49, 48, 56, 48>>            \* "socks5://u:p@a:1080"
X_socks5 == <<115, 111, 99, 107, 115, 53, 58, 47, 47, 97>>   \* "socks5://a"
X_http_auth == <<104, 116, 116, 112, 58, 47, 47, 118, 58, 113, 64, 98, 58, 56,
                 48>>                              \* "http://v:q@b:80"
X_socks4 == <<115, 111, 99, 107, 115, 52, 58, 47, 47, 119, 64, 49, 46, 50, 46,
              51, 46, 52>>                         \* "socks4://w@1.2.3.4"
X_malformed == <<104, 116, 116, 112, 58, 47, 99>>  \* "http:/c"
X_ftp == <<102, 116, 112, 58, 47, 47, 100, 58, 50, 49>>      \* "ftp://d:21"

SpecifierPool == {X_socks5_auth, X_socks5, X_http_auth, X_socks4, X_malformed, X_ftp}

H_ip == <<49, 48, 46, 48, 46, 48, 46, 53>>         \* "10.0.0.5"
H_name == <<101, 46, 99, 111, 109>>                \* "e.com"

Targets == {<<H_ip, 443>>, <<H_name, 80>>}

\* "HTTP/1.1 200 Connection established\r\n\r\n"
R_http_ok == <<72, 84, 84, 80, 47, 49, 46, 49, 32, 50, 48, 48, 32, 67, 111,
               110, 110, 101, 99, 116, 105, 111, 110, 32, 101, 115, 116, 97,
               98, 108, 105, 115, 104, 101, 100, 13, 10, 13, 10>>
\* "HTTP/1.1 407 Auth\r\n\r\n"
R_http_407 == <<72, 84, 84, 80, 47, 49, 46, 49, 32, 52, 48, 55, 32, 65, 117,
                116, 104, 13, 10, 13, 10>>

Replies == {<<>>, <<5>>, <<5, 0>>, <<5, 2>>, <<5, 255>>, <<5, 1>>,
            <<1, 0>>, <<1, 1>>, <<0, 90>>,
            <<5, 0, 0, 1, 0, 0, 0, 0, 0, 0>>, R_http_ok, R_http_407}

\* what a target that speaks first may send once the tunnel to it is open
EarlyData == {<<>>, <<50, 50, 48>>}                \* "", "220"

ProxyLists == UNION {[1..n -> SpecifierPool] : n \in 0..MaxChain}

(***************************************************************************)
(* The state of one call of proxySocket and of the runtime under it.       *)
(***************************************************************************)
VARIABLES
  proxies,      \* argument: the proxy specifier strings
  target,       \* argument: <<host, port>>
  timeout,      \* argument: the timeout, in timer ticks
  pc,           \* where the call is: idle, an await, returned or failed
  left,         \* ticks left on the timer of the pending deadline()
  inflight,     \* the operation the runtime is still performing, or "none"
  conn,         \* the variable conn: "null" or "conn"
  sock,         \* the socket Deno.connect makes: "none", "open", "closed"
  firstProxyInfo,                \* parseProxy(proxies[0])
  currentProtocolForHandshake,
  hops,         \* the work list: <<host, port, protocol>> entries
  hopIdx,       \* the entry the for loop is at
  ioLog,        \* the network operations issued, in order
  wire,         \* the packets given to conn.write, in order
  rx,           \* what each conn.read resolved with, in order
  unread,       \* the bytes the peer has sent that no read has taken yet
  taken,        \* for each conn.read, where the bytes it took came from
  validated,    \* how many hop responses checkResponse accepted
  error,        \* what the call threw
  closeThrew,   \* whether conn.close() threw in the catch block
  returned,     \* what the call returned: "null" or "conn"
  applied       \* a function of the module applied on its own: its name,
                \* its arguments and what it gave

vars == <<proxies, target, timeout, pc, left, inflight, conn, sock, firstProxyInfo,
          currentProtocolForHandshake, hops, hopIdx, ioLog, wire, rx, unread, taken,
          validated, error, closeThrew, returned, applied>>

\* what a call of proxySocket leaves as it is
inputs == <<proxies, target, timeout, applied>>

Awaiting == {"connect", "w_methods", "r_methods", "w_userpass", "r_userpass",
             "w_hop", "r_hop"}
Writing == {"w_methods", "w_userpass", "w_hop"}
Reading == {"r_methods", "r_userpass", "r_hop"}

\* new Error(msg), with the values its message template interpolates
Err(msg) == [msg |-> msg, protocol |-> <<>>, host |-> <<>>, port |-> 0, status |-> 0]
ErrHop(msg, protocol, hop) ==
  [msg |-> msg, protocol |-> protocol, host |-> hop[1], port |-> hop[2], status |-> 0]
ErrStatus(msg, status) ==
  [msg |-> msg, protocol |-> <<>>, host |-> <<>>, port |-> 0, status |-> status]

NoError == [wrapped |-> FALSE, cause |-> Err("")]

TypeErr == Err("TypeError: origin is undefined")
TimedOut == Err("Signal timed out.")

NotApplied == [fn |-> "none", args |-> <<>>, done |-> FALSE, out |-> <<>>]

Init ==
  /\ proxies \in ProxyLists
  /\ target \in Targets
  /\ timeout \in 1..MaxTimeout
  /\ pc = "idle"
  /\ left = 0
  /\ inflight = "none"
  /\ conn = "null"
  /\ sock = "none"
  /\ firstProxyInfo = <<>>
  /\ currentProtocolForHandshake = <<>>
  /\ hops = <<>>
  /\ hopIdx = 0
  /\ ioLog = <<>>
  /\ wire = <<>>
  /\ rx = <<>>
  /\ unread = <<>>
  /\ taken = <<>>
  /\ validated = 0
  /\ error = NoError
  /\ closeThrew = FALSE
  /\ returned = "null"
  /\ applied = NotApplied

(***************************************************************************)
(* deadline(p, timeout): a timer of timeout ticks races the operation p.   *)
(* When the timer wins, deadline rejects and p itself goes on.             *)
(***************************************************************************)
\* faulty variant: one budget for the whole call, each operation given what is left
deadline_Amortized(ms) == IF pc = "idle" THEN ms ELSE left

deadline(ms) == ms

\* an operation is given to the runtime under a deadline, and the call awaits it
Await(at, op, c, hs, i, w) ==
  /\ pc' = at
  /\ left' = deadline(timeout)
  /\ inflight' = op
  /\ conn' = c
  /\ sock' = IF c = "conn" THEN "open" ELSE sock
  /\ hops' = hs
  /\ hopIdx' = i
  /\ ioLog' = Append(ioLog, op)
  /\ wire' = w
  /\ UNCHANGED <<error, closeThrew, returned>>

SentPacket(phase, bytes, protocol, auth) ==
  [phase |-> phase, bytes |-> bytes, protocol |-> protocol, auth |-> auth]

\* await deadline(conn.write(packet), timeout)
Write(at, sent, c, hs, i) == Await(at, "write", c, hs, i, Append(wire, sent))

\* faulty variant: the catch block does not close the connection
Catch_NoClose(e, c, hs, i) ==
  /\ pc' = "failed"
  /\ left' = 0
  /\ conn' = c
  /\ hops' = hs
  /\ hopIdx' = i
  /\ error' = [wrapped |-> TRUE, cause |-> e]
  /\ sock' = IF c = "conn" THEN "open" ELSE sock
  /\ UNCHANGED <<ioLog, closeThrew, wire, returned>>

\* faulty variant: what conn.close() throws is not caught and replaces the failure
Catch_CloseErrorEscapes(e, c, hs, i) ==
  /\ pc' = "failed"
  /\ left' = 0
  /\ conn' = c
  /\ hops' = hs
  /\ hopIdx' = i
  /\ IF c = "conn"
     THEN /\ sock' = "closed"
          /\ ioLog' = Append(ioLog, "close")
          /\ closeThrew' \in BOOLEAN
          /\ error' = IF closeThrew'
                      THEN [wrapped |-> FALSE, cause |-> Err("close error")]
                      ELSE [wrapped |-> TRUE, cause |-> e]
     ELSE /\ error' = [wrapped |-> TRUE, cause |-> e]
          /\ UNCHANGED <<sock, ioLog, closeThrew>>
  /\ UNCHANGED <<wire, returned>>

\* the catch block: close conn if it is set, swallow what close throws, and
\* throw "Proxy socket setup failed: " + the message of e.  Closing the
\* connection ends the read or write still pending on it.  conn.close()
\* releases the socket; it throws only for a resource already released, so
\* the socket is not open after it whether it throws or not.
Catch(e, c, hs, i) ==
  /\ pc' = "failed"
  /\ left' = 0
  /\ conn' = c
  /\ hops' = hs
  /\ hopIdx' = i
  /\ error' = [wrapped |-> TRUE, cause |-> e]
  /\ IF c = "conn"
     THEN /\ sock' = "closed"
          /\ ioLog' = Append(ioLog, "close")
          /\ closeThrew' \in BOOLEAN
     ELSE UNCHANGED <<sock, ioLog, closeThrew>>
  /\ UNCHANGED <<wire, returned>>

\* lines 272-275
Return(c, hs, i) ==
  IF c = "null"
  THEN Catch(Err("Connection object is null after successful proxy chain."), c, hs, i)
  ELSE /\ pc' = "returned"
       /\ returned' = c
       /\ left' = 0
       /\ conn' = c
       /\ sock' = "open"
       /\ hops' = hs
       /\ hopIdx' = i
       /\ UNCHANGED <<ioLog, wire, error, closeThrew>>

\* faulty variant: the work list does not carry the protocol of the next proxy
hopsOf_NoProtocol(ps, tgt) ==
  [i \in 1..Len(ps) |->
     IF i < Len(ps)
     THEN <<parseProxy(ps[i + 1])[2], parseProxy(ps[i + 1])[3], Undefined>>
     ELSE <<tgt[1], tgt[2], Undefined>>]

\* lines 229-234: the work list of a proxy list and a target
hopsOf(ps, tgt) ==
  [i \in 1..Len(ps) |->
     IF i < Len(ps)
     THEN <<parseProxy(ps[i + 1])[2], parseProxy(ps[i + 1])[3], parseProxy(ps[i + 1])[1]>>
     ELSE <<tgt[1], tgt[2], Undefined>>]

hopsThrows(ps) == \E i \in 2..Len(ps) : parseProxyThrows(ps[i])

\* lines 246-248: the credentials given to generatePacket
HandshakeAuth(info, protocol) ==
  IF protocol = P_http \/ protocol = P_socks4 THEN <<info[4], info[5]>> ELSE Undefined

\* lines 241-249
HandshakePacket(info, protocol, hop) ==
  generatePacket(protocol, <<hop[1], hop[2]>>, HandshakeAuth(info, protocol))

\* faulty variant: each hop is given the credentials of the proxy spoken to
HopStep_OwnCredentials(i, hs, protocol, c) ==
  IF i > Len(hs)
  THEN Return(c, hs, i)
  ELSE LET packet == HandshakePacket(parseProxy(proxies[i]), protocol, hs[i])
       IN IF packet.ok
          THEN Write("w_hop",
                     SentPacket("hop", packet.bytes, protocol,
                                HandshakeAuth(parseProxy(proxies[i]), protocol)),
                     c, hs, i)
          ELSE Catch(Err(packet.err), c, hs, i)

\* one turn of the for loop, up to its first await (lines 238-250)
HopStep(i, hs, protocol, c) ==
  IF i > Len(hs)
  THEN Return(c, hs, i)
  ELSE LET packet == HandshakePacket(firstProxyInfo, protocol, hs[i])
       IN IF packet.ok
          THEN Write("w_hop",
                     SentPacket("hop", packet.bytes, protocol,
                                HandshakeAuth(firstProxyInfo, protocol)),
                     c, hs, i)
          ELSE Catch(Err(packet.err), c, hs, i)

\* lines 229-238: build the work list and enter the loop
EnterHopLoop(c) ==
  IF hopsThrows(proxies)
  THEN Catch(TypeErr, c, hops, hopIdx)
  ELSE HopStep(1, hopsOf(proxies, target), currentProtocolForHandshake, c)

(***************************************************************************)
(* proxySocket                                                             *)
(***************************************************************************)
\* faulty variant: the list is not checked for emptiness, and parseProxy is given
\* proxies[0], undefined for an empty list
Call_NoEmptyCheck ==
  /\ pc = "idle"
  /\ IF Len(proxies) = 0 \/ parseProxyThrows(proxies[1])
     THEN /\ pc' = "failed"
          /\ error' = [wrapped |-> FALSE, cause |-> TypeErr]
          /\ UNCHANGED <<left, inflight, conn, sock, firstProxyInfo,
                         currentProtocolForHandshake, hops, hopIdx, ioLog, wire,
                         closeThrew, returned>>
     ELSE /\ firstProxyInfo' = parseProxy(proxies[1])
          /\ currentProtocolForHandshake' = parseProxy(proxies[1])[1]
          /\ Await("connect", "connect", conn, hops, hopIdx, wire)
  /\ UNCHANGED <<inputs, rx, unread, taken,
                 validated>>

\* lines 150-168: the checks before the try block, then Deno.connect
Call ==
  /\ pc = "idle"
  /\ IF Len(proxies) = 0 \/ parseProxyThrows(proxies[1])
     THEN /\ pc' = "failed"
          /\ error' = [wrapped |-> FALSE,
                       cause |-> IF Len(proxies) = 0
                                 THEN Err("Proxy list cannot be empty.")
                                 ELSE TypeErr]
          /\ UNCHANGED <<left, inflight, conn, sock, firstProxyInfo,
                         currentProtocolForHandshake, hops, hopIdx, ioLog, wire,
                         closeThrew, returned>>
     ELSE /\ firstProxyInfo' = parseProxy(proxies[1])
          /\ currentProtocolForHandshake' = parseProxy(proxies[1])[1]
          /\ Await("connect", "connect", conn, hops, hopIdx, wire)
  /\ UNCHANGED <<inputs, rx, unread, taken,
                 validated>>

\* a timer tick while a deadline is pending
Tick ==
  /\ pc \in Awaiting
  /\ left > 0
  /\ left' = left - 1
  /\ UNCHANGED <<inputs, pc, inflight, conn, sock, firstProxyInfo,
                 currentProtocolForHandshake, hops, hopIdx, ioLog, wire, rx, unread, taken,
                 validated, error, closeThrew, returned>>

\* the timer of the pending deadline fires: the await throws.  A pending
\* Deno.connect is not given up by the runtime.
Timeout ==
  /\ pc \in Awaiting
  /\ left = 0
  /\ Catch(TimedOut, conn, hops, hopIdx)
  /\ inflight' = IF pc = "connect" THEN inflight ELSE "none"
  /\ UNCHANGED <<inputs, firstProxyInfo, currentProtocolForHandshake, rx, unread, taken,
                 validated>>

\* faulty variant: username/password is offered whether or not a username
\* was given
authMethodsPacket_AlwaysUserPass(username) ==
  LET authMethods == <<0, 2>>
  IN Uint8Array(<<5, Len(authMethods)>> \o authMethods)

\* lines 174-179
authMethodsPacket(username) ==
  LET authMethods == IF Truthy(username) THEN <<0, 2>> ELSE <<0>>
  IN Uint8Array(<<5, Len(authMethods)>> \o authMethods)

\* faulty variant: the hop loop is entered without the SOCKS5 negotiation
ConnectOk_NoNegotiation ==
  /\ pc = "connect"
  /\ EnterHopLoop("conn")
  /\ IF pc' \in Awaiting THEN TRUE ELSE inflight' = "none"
  /\ UNCHANGED <<inputs, firstProxyInfo, currentProtocolForHandshake, rx, unread, taken,
                 validated>>

\* line 168 resolves, lines 170-179
ConnectOk ==
  /\ pc = "connect"
  /\ IF firstProxyInfo[1] = P_socks5
     THEN Write("w_methods",
                SentPacket("methods", authMethodsPacket(firstProxyInfo[4]), <<>>, Undefined),
                "conn", hops, hopIdx)
     ELSE EnterHopLoop("conn")
  /\ IF pc' \in Awaiting THEN TRUE ELSE inflight' = "none"
  /\ UNCHANGED <<inputs, firstProxyInfo, currentProtocolForHandshake, rx, unread, taken,
                 validated>>

\* faulty variant: a rejected connect is tried again
ConnectFail_Retry ==
  /\ pc = "connect"
  /\ Await("connect", "connect", conn, hops, hopIdx, wire)
  /\ UNCHANGED <<inputs, firstProxyInfo, currentProtocolForHandshake, rx, unread, taken,
                 validated>>

\* Deno.connect rejects
ConnectFail ==
  /\ pc = "connect"
  /\ Catch(Err("connect error"), conn, hops, hopIdx)
  /\ inflight' = "none"
  /\ UNCHANGED <<inputs, firstProxyInfo, currentProtocolForHandshake, rx, unread, taken,
                 validated>>

\* Deno.connect settles after its deadline has fired: nothing awaits it
LateConnectOk ==
  /\ pc = "failed"
  /\ inflight = "connect"
  /\ inflight' = "none"
  /\ sock' = "open"
  /\ UNCHANGED <<inputs, pc, left, conn, firstProxyInfo, currentProtocolForHandshake,
                 hops, hopIdx, ioLog, wire, rx, unread, taken,
                 validated, error, closeThrew, returned>>

LateConnectFail ==
  /\ pc = "failed"
  /\ inflight = "connect"
  /\ inflight' = "none"
  /\ UNCHANGED <<inputs, pc, left, conn, sock, firstProxyInfo,
                 currentProtocolForHandshake, hops, hopIdx, ioLog, wire, rx, unread, taken,
                 validated, error, closeThrew, returned>>

ReadAfter(at) ==
  IF at = "w_methods" THEN "r_methods"
  ELSE IF at = "w_userpass" THEN "r_userpass" ELSE "r_hop"

\* faulty variant: the packet of the next hop is written as soon as the write
\* before it resolves, its response not yet read
WriteOk_Pipelined ==
  /\ pc \in Writing
  /\ IF pc = "w_hop" /\ hopIdx < Len(hops)
     THEN HopStep(hopIdx + 1, hops, currentProtocolForHandshake, conn)
     ELSE Await(ReadAfter(pc), "read", conn, hops, hopIdx, wire)
  /\ IF pc' \in Awaiting THEN TRUE ELSE inflight' = "none"
  /\ UNCHANGED <<inputs, firstProxyInfo, currentProtocolForHandshake, rx, unread, taken,
                 validated>>

\* conn.write resolves; the read after it is issued (lines 183, 211, 253)
WriteOk ==
  /\ pc \in Writing
  /\ Await(ReadAfter(pc), "read", conn, hops, hopIdx, wire)
  /\ UNCHANGED <<inputs, firstProxyInfo, currentProtocolForHandshake, rx, unread, taken,
                 validated>>

\* conn.write rejects
WriteFail ==
  /\ pc \in Writing
  /\ Catch(Err("write error"), conn, hops, hopIdx)
  /\ inflight' = "none"
  /\ UNCHANGED <<inputs, firstProxyInfo, currentProtocolForHandshake, rx, unread, taken,
                 validated>>

\* conn.read rejects
ReadFail ==
  /\ pc \in Reading
  /\ Catch(Err("read error"), conn, hops, hopIdx)
  /\ inflight' = "none"
  /\ UNCHANGED <<inputs, firstProxyInfo, currentProtocolForHandshake, rx, unread, taken,
                 validated>>

\* where a byte on the connection comes from: the SOCKS5 negotiation, the
\* reply to the CONNECT packet of hop k, or the target behind the last proxy
FromAuth == <<"auth", 0>>
FromHop(k) == <<"hop", k>>
FromTarget == <<"target", 0>>

Sent(bytes, src) == [i \in 1..Len(bytes) |-> [src |-> src, byte |-> bytes[i]]]

\* what there is to read once the peer has answered with chunk; null is the
\* peer closing the stream
Available(chunk, src) == IF chunk = Null THEN unread ELSE unread \o Sent(chunk, src)

\* the numbers of bytes conn.read(buffer) may resolve with, buffer of size
\* bytes: what is there and fits, or the part of it that has come in
ReadSizes(avail, size) ==
  LET most == Min({Len(avail), size})
  IN {most} \cup {n \in {ShortRead} : n < most}

\* conn.read(buffer) resolving with n bytes of what is there, or with null
\* at the end of the stream
ReadInto(avail, n, closed) ==
  IF avail = <<>> /\ closed THEN Null ELSE [i \in 1..n |-> avail[i].byte]

\* the n bytes read leave the connection
Take(avail, n) ==
  /\ unread' = SubSeq(avail, n + 1, Len(avail))
  /\ taken' = Append(taken, {avail[i].src : i \in 1..n})

Received(phase, data) == [phase |-> phase, data |-> data]

\* lines 198-207
userPassAuthPacket(username, password) ==
  LET userBytes == encode(username)
      passBytes == encode(IF Truthy(password) THEN password ELSE <<>>)
  IN Uint8Array(<<1, Len(userBytes)>> \o userBytes \o <<Len(passBytes)>> \o passBytes)

\* line 183 resolves, lines 185-226
ReadMethods(chunk) ==
  LET avail == Available(chunk, FromAuth)
  IN /\ pc = "r_methods"
     /\ \E n \in ReadSizes(avail, 2) :
       LET data == ReadInto(avail, n, chunk = Null)
       IN /\ Take(avail, n)
          /\ rx' = Append(rx, Received("methods", data))
          /\ IF data = Null \/ Len(data) < 2
             THEN Catch(Err("SOCKS5 auth method negotiation failed: connection closed or insufficient data."),
                        conn, hops, hopIdx)
             ELSE IF data[1] # 5
             THEN Catch(Err("SOCKS5 auth method negotiation failed: invalid version."),
                        conn, hops, hopIdx)
             ELSE IF data[2] = 2
             THEN IF ~Truthy(firstProxyInfo[4])
                  THEN Catch(Err("SOCKS5 selected Username/Password auth, but no username provided."),
                             conn, hops, hopIdx)
                  ELSE Write("w_userpass",
                             SentPacket("userpass",
                                        userPassAuthPacket(firstProxyInfo[4], firstProxyInfo[5]),
                                        <<>>, Undefined),
                             conn, hops, hopIdx)
             ELSE IF data[2] = 0
             THEN EnterHopLoop(conn)
             ELSE IF data[2] = 255
             THEN Catch(Err("SOCKS5 authentication failed: no acceptable methods offered were accepted by the proxy."),
                        conn, hops, hopIdx)
             ELSE Catch(ErrStatus("SOCKS5 authentication failed: unsupported method selected by proxy", data[2]),
                        conn, hops, hopIdx)
          /\ IF pc' \in Awaiting THEN TRUE ELSE inflight' = "none"
          /\ UNCHANGED <<inputs, firstProxyInfo, currentProtocolForHandshake, validated>>

\* faulty variant: the reply to the username/password packet is accepted on
\* its version byte alone
ReadUserPass_IgnoresStatus(chunk) ==
  LET avail == Available(chunk, FromAuth)
  IN /\ pc = "r_userpass"
     /\ \E n \in ReadSizes(avail, 2) :
       LET data == ReadInto(avail, n, chunk = Null)
       IN /\ Take(avail, n)
          /\ rx' = Append(rx, Received("userpass", data))
          /\ IF data = Null \/ Len(data) < 2
             THEN Catch(Err("SOCKS5 username/password auth failed: connection closed or insufficient data."),
                        conn, hops, hopIdx)
             ELSE IF data[1] # 1
             THEN Catch(ErrStatus("SOCKS5 username/password authentication failed.", data[2]),
                        conn, hops, hopIdx)
             ELSE EnterHopLoop(conn)
          /\ IF pc' \in Awaiting THEN TRUE ELSE inflight' = "none"
          /\ UNCHANGED <<inputs, firstProxyInfo, currentProtocolForHandshake, validated>>

\* line 211 resolves, lines 212-218
ReadUserPass(chunk) ==
  LET avail == Available(chunk, FromAuth)
  IN /\ pc = "r_userpass"
     /\ \E n \in ReadSizes(avail, 2) :
       LET data == ReadInto(avail, n, chunk = Null)
       IN /\ Take(avail, n)
          /\ rx' = Append(rx, Received("userpass", data))
          /\ IF data = Null \/ Len(data) < 2
             THEN Catch(Err("SOCKS5 username/password auth failed: connection closed or insufficient data."),
                        conn, hops, hopIdx)
             ELSE IF data[1] # 1 \/ data[2] # 0
             THEN Catch(ErrStatus("SOCKS5 username/password authentication failed.", data[2]),
                        conn, hops, hopIdx)
             ELSE EnterHopLoop(conn)
          /\ IF pc' \in Awaiting THEN TRUE ELSE inflight' = "none"
          /\ UNCHANGED <<inputs, firstProxyInfo, currentProtocolForHandshake, validated>>

\* faulty variant: the end of the stream is not told from a response
bytesReadIsNull_Never(data) == FALSE

\* line 255: bytesRead === null
bytesReadIsNull(data) == data = Null

\* line 253 resolves, lines 255-270 and the next turn of the loop.  Behind
\* the last proxy, a reply that opens the tunnel may be followed at once by
\* the first bytes of the target.
ReadHop(chunk, early) ==
  LET avail == Available(chunk, FromHop(hopIdx)) \o Sent(early, FromTarget)
  IN /\ pc = "r_hop"
     /\ early # <<>> =>
          /\ hopIdx = Len(hops)
          /\ chunk # Null
          /\ checkResponse(currentProtocolForHandshake, chunk)
     /\ \E n \in ReadSizes(avail, 1024) :
       LET data == ReadInto(avail, n, chunk = Null)
           hop == hops[hopIdx]
           protocol == currentProtocolForHandshake
       IN /\ Take(avail, n)
          /\ rx' = Append(rx, Received("hop", data))
          /\ IF bytesReadIsNull(data)
             THEN /\ Catch(ErrHop("Connection closed prematurely by proxy", protocol, hop),
                           conn, hops, hopIdx)
                  /\ UNCHANGED <<currentProtocolForHandshake, validated>>
             ELSE IF ~checkResponse(protocol, IF data = Null THEN <<>> ELSE data)
             THEN /\ Catch(ErrHop("Handshake failed with proxy. Invalid response.", protocol, hop),
                           conn, hops, hopIdx)
                  /\ UNCHANGED <<currentProtocolForHandshake, validated>>
             ELSE /\ validated' = validated + 1
                  /\ currentProtocolForHandshake' = IF Truthy(hop[3]) THEN hop[3] ELSE protocol
                  /\ HopStep(hopIdx + 1, hops, IF Truthy(hop[3]) THEN hop[3] ELSE protocol, conn)
          /\ IF pc' \in Awaiting THEN TRUE ELSE inflight' = "none"
          /\ UNCHANGED <<inputs, firstProxyInfo>>

Next ==
  \/ Call
  \/ Tick
  \/ Timeout
  \/ ConnectOk
  \/ ConnectFail
  \/ LateConnectOk
  \/ LateConnectFail
  \/ WriteOk
  \/ WriteFail
  \/ ReadFail
  \/ \E chunk \in Replies \cup {Null} : ReadMethods(chunk)
  \/ \E chunk \in Replies \cup {Null} : ReadUserPass(chunk)
  \/ \E chunk \in Replies \cup {Null}, early \in EarlyData : ReadHop(chunk, early)

Spec == Init /\ [][Next]_vars

\* the timer of a pending deadline always runs, and fires when it has run out
LiveSpec == Spec /\ WF_vars(Tick) /\ WF_vars(Timeout)

(***************************************************************************)
(* The functions of the module applied on their own, outside a call of     *)
(* proxySocket: generatePacket, checkResponse and the building of the      *)
(* username/password packet, each on arguments drawn from the sets below.  *)
(***************************************************************************)
\* the longest domain name a SOCKS5 packet takes
MaxDomain == 255

Repeat(c, n) == [i \in 1..n |-> c]

H_broadcast == <<50, 53, 53, 46, 50, 53, 53, 46, 50, 53, 53, 46, 50, 53, 53>>  \* "255.255.255.255"
H_256 == <<50, 53, 54, 46, 49, 46, 49, 46, 49>>    \* "256.1.1.1"
H_short == <<49, 46, 50, 46, 51>>                  \* "1.2.3"
H_zeros == <<48, 49, 46, 50, 46, 51, 46, 52>>      \* "01.2.3.4"

HostArgs == {H_ip, H_name, H_broadcast, H_256, H_short, H_zeros, <<>>,
             Repeat(97, MaxDomain), Repeat(97, MaxDomain + 1)}
PortArgs == {80, 443, 65535}
P_ftp == <<102, 116, 112>>                         \* "ftp"
P_SOCKS5 == <<83, 79, 67, 75, 83, 53>>             \* "SOCKS5"
AuthArgs == {Undefined, <<<<117>>, <<112>>>>, <<<<117>>, Null>>}

\* "HTTP/1.0 200 CONNECTION ESTABLISHED\r\n"
R_http_upper == <<72, 84, 84, 80, 47, 49, 46, 48, 32, 50, 48, 48, 32, 67, 79,
                  78, 78, 69, 67, 84, 73, 79, 78, 32, 69, 83, 84, 65, 66, 76,
                  73, 83, 72, 69, 68, 13, 10>>
\* "HTTP/1.1 407 Auth\r\n" and then the text of R_http_ok as a second line
R_http_second == SubSeq(R_http_407, 1, Len(R_http_407) - 2) \o R_http_ok
DataArgs == Replies \cup {<<0, 90, 0, 0, 0, 0, 0, 0>>, <<0, 91>>, <<4, 0>>, <<0>>,
                          <<5, 0, 255>>, <<90, 0>>, <<0, 5>>,
                          R_http_upper, R_http_second, T_200,
                          SubSeq(R_http_ok, 1, Len(R_http_ok) - 5)}

UsernameArgs == {<<117>>, Repeat(97, MaxDomain), Repeat(97, MaxDomain + 1),
                 Repeat(97, MaxDomain + 45)}
PasswordArgs == {Null, <<112>>, Repeat(98, MaxDomain), Repeat(98, MaxDomain + 1)}

Applying(fn, args) == [fn |-> fn, args |-> args, done |-> FALSE, out |-> <<>>]

Applications ==
  {Applying("generatePacket", <<p, <<h, n>>, a>>) :
     p \in {P_socks5, P_socks4, P_http, P_ftp}, h \in HostArgs, n \in PortArgs, a \in AuthArgs}
  \cup {Applying("checkResponse", <<p, d>>) :
          p \in {P_socks5, P_socks4, P_http, P_ftp, P_SOCKS5, <<>>}, d \in DataArgs}
  \cup {Applying("userPassAuthPacket", <<u, p>>) : u \in UsernameArgs, p \in PasswordArgs}

\* the variables of a call of proxySocket
call == <<proxies, target, timeout, pc, left, inflight, conn, sock, firstProxyInfo,
          currentProtocolForHandshake, hops, hopIdx, ioLog, wire, rx, unread, taken,
          validated, error, closeThrew, returned>>

FnInit ==
  /\ applied \in Applications
  /\ proxies = <<>>
  /\ target = <<H_ip, 443>>
  /\ timeout = 1
  /\ pc = "idle"
  /\ left = 0
  /\ inflight = "none"
  /\ conn = "null"
  /\ sock = "none"
  /\ firstProxyInfo = <<>>
  /\ currentProtocolForHandshake = <<>>
  /\ hops = <<>>
  /\ hopIdx = 0
  /\ ioLog = <<>>
  /\ wire = <<>>
  /\ rx = <<>>
  /\ unread = <<>>
  /\ taken = <<>>
  /\ validated = 0
  /\ error = NoError
  /\ closeThrew = FALSE
  /\ returned = "null"

Gave(out) == [applied EXCEPT !.done = TRUE, !.out = out]

Apply_generatePacket ==
  /\ applied.fn = "generatePacket"
  /\ ~applied.done
  /\ applied' = Gave(generatePacket(applied.args[1], applied.args[2], applied.args[3]))
  /\ UNCHANGED call

Apply_checkResponse ==
  /\ applied.fn = "checkResponse"
  /\ ~applied.done
  /\ applied' = Gave(checkResponse(applied.args[1], applied.args[2]))
  /\ UNCHANGED call

Apply_userPassAuthPacket ==
  /\ applied.fn = "userPassAuthPacket"
  /\ ~applied.done
  /\ applied' = Gave(userPassAuthPacket(applied.args[1], applied.args[2]))
  /\ UNCHANGED call

FnNext ==
  \/ Apply_generatePacket
  \/ Apply_checkResponse
  \/ Apply_userPassAuthPacket

FnSpec == FnInit /\ [][FnNext]_vars

(***************************************************************************)
(* What the claims speak of.                                               *)
(***************************************************************************)
Failed == pc = "failed"
Last(q) == q[Len(q)]

IsHop(m) == m.phase = "hop"
\* the CONNECT packets written by the hop loop, and the responses it read
HopWire == SelectSeq(wire, IsHop)
HopRx == SelectSeq(rx, IsHop)

\* the specifier strings parseProxy throws on, and what it makes of the others
Malformed == {x \in SpecifierPool : parseProxyThrows(x)}
Parsed == [x \in SpecifierPool \ Malformed |-> parseProxy(x)]

\* the protocol of the k-th proxy of the chain and the destination the k-th
\* handshake is to name, read off the arguments
ProtocolOfProxy(k) == Parsed[proxies[k]][1]
Destination(k) ==
  IF k < Len(proxies)
  THEN <<Parsed[proxies[k + 1]][2], Parsed[proxies[k + 1]][3]>>
  ELSE target

ClosedMsg == "Connection closed prematurely by proxy"
HandshakeMsg == "Handshake failed with proxy. Invalid response."

\* C1: when the connection was opened and a later step fails for a reason
\* other than a timeout, the connection is closed once the error is thrown,
\* the close being the last operation of the call; no socket is left open.
C1_FailureClosesConnection ==
  (Failed /\ error.cause # TimedOut) =>
     /\ sock # "open"
     /\ conn = "conn" => (sock = "closed" /\ Last(ioLog) = "close")

\* a handshake rejected at the second hop, with the connection closed
C1_Witness ==
  /\ Failed
  /\ conn = "conn"
  /\ error.cause.msg = HandshakeMsg
  /\ validated = 1
  /\ sock = "closed"

\* C2 (as claimed): after a call has failed on a timeout, no open socket
\* remains, whenever the pending operation completes.
C2_TimeoutLeavesNoSocket ==
  (Failed /\ error.cause = TimedOut) => sock # "open"

\* C3 (as claimed): a connection is returned only when every work-list entry
\* had its packet written and its response validated, it is the open
\* connection to the first proxy, and in every other outcome nothing is
\* returned and no socket is left open.
C3_NoPartialSuccess ==
  /\ pc = "returned" =>
       /\ returned = "conn"
       /\ sock = "open"
       /\ ~(\E k \in 1..Len(ioLog) : ioLog[k] = "close")
       /\ Len(HopWire) = Len(proxies)
       /\ validated = Len(proxies)
       /\ Len(HopRx) = Len(proxies)
       /\ \A k \in 1..Len(HopRx) :
            /\ HopRx[k].data # Null
            /\ checkResponse(ProtocolOfProxy(k), HopRx[k].data)
  /\ pc # "returned" => returned = "null"
  /\ Failed => sock # "open"

\* C4: a call with an empty proxy list fails at once with "Proxy list cannot
\* be empty." and performs no connect, write, read or close.
C4_EmptyListNoIO ==
  (proxies = <<>> /\ pc # "idle") =>
     /\ Failed
     /\ error.cause = Err("Proxy list cannot be empty.")
     /\ ioLog = <<>>
     /\ wire = <<>>
     /\ rx = <<>>
     /\ sock = "none"
     /\ inflight = "none"

C4_Witness == proxies = <<>> /\ Failed

\* C5: the k-th CONNECT packet is built in the protocol of the k-th proxy and
\* names the (k+1)-th proxy, or the target after the last proxy; it is written
\* only after the k-1 handshakes before it were validated; the current
\* protocol is that of the first proxy and moves to the next proxy's only
\* with a validated handshake.
C5_ChainWalkedInOrder ==
  (pc # "idle" /\ firstProxyInfo # <<>>) =>
     /\ \A k \in 1..Len(HopWire) :
          /\ HopWire[k].protocol = ProtocolOfProxy(k)
          /\ HopWire[k].bytes =
               generatePacket(ProtocolOfProxy(k), Destination(k), HopWire[k].auth).bytes
     /\ Len(HopWire) \in {validated, validated + 1}
     /\ validated <= Len(proxies)
     /\ currentProtocolForHandshake =
          ProtocolOfProxy(IF validated < Len(proxies) THEN validated + 1 ELSE Len(proxies))

\* socks5 then http: the second packet, an HTTP CONNECT to the target, is out
C5_Witness ==
  /\ Len(proxies) = 2
  /\ Len(HopWire) = 2
  /\ ProtocolOfProxy(1) = P_socks5
  /\ ProtocolOfProxy(2) = P_http
  /\ currentProtocolForHandshake = P_http

\* C6 (as claimed): every failure reaches the caller wrapped.
C6_EveryFailureWrapped == Failed => error.wrapped

\* the messages of the failures the call can meet
CauseMessages ==
  {"Proxy list cannot be empty.", "TypeError: origin is undefined", "Signal timed out.",
   "connect error", "write error", "read error",
   "SOCKS5 auth method negotiation failed: connection closed or insufficient data.",
   "SOCKS5 auth method negotiation failed: invalid version.",
   "SOCKS5 selected Username/Password auth, but no username provided.",
   "SOCKS5 username/password auth failed: connection closed or insufficient data.",
   "SOCKS5 username/password authentication failed.",
   "SOCKS5 authentication failed: no acceptable methods offered were accepted by the proxy.",
   "SOCKS5 authentication failed: unsupported method selected by proxy",
   "SOCKS5: domain name too long", "Unsupported protocol for generating packet",
   ClosedMsg, HandshakeMsg}

\* C6 (amended): a failure is thrown unwrapped exactly when it is met before
\* the transport connect is issued (the empty list, a malformed first
\* specifier); every later failure is thrown wrapped, carrying the message of
\* its cause, after the connection, if set, has been closed; a close that
\* throws changes neither the wrapping nor the cause.
C6_FailuresInTryWrapped ==
  Failed =>
     /\ error.wrapped <=> ioLog # <<>>
     /\ ~error.wrapped <=> (proxies = <<>> \/ proxies[1] \in Malformed)
     /\ error.cause.msg \in CauseMessages
     /\ conn = "conn" => (error.wrapped /\ sock = "closed" /\ Last(ioLog) = "close")
     /\ closeThrew => (conn = "conn" /\ error.wrapped)

\* a wrapped failure whose cleanup close threw
C6_Witness ==
  /\ Failed
  /\ closeThrew
  /\ error.wrapped
  /\ error.cause.msg = HandshakeMsg

\* the call has just failed on the response read of the hop loop
FailedOnHopRead(data) ==
  /\ Failed
  /\ rx # <<>>
  /\ Last(rx) = Received("hop", data)
  /\ error.cause.msg \in {ClosedMsg, HandshakeMsg}

\* C7 (as claimed): a hop read of zero bytes, or of end of stream, fails with
\* the connection-closed error.
C7_ZeroBytesOrClosed ==
  (FailedOnHopRead(Null) \/ FailedOnHopRead(<<>>)) =>
     /\ error.cause.msg = ClosedMsg
     /\ sock = "closed"

\* C7 (amended): a hop read that signals end of stream (null) fails with the
\* connection-closed error, which names the protocol spoken and the
\* destination; a read of zero bytes that is not end of stream fails as a
\* handshake failure; either way the connection is closed.
C7_ClosedStreamAtHop ==
  /\ (Failed /\ rx # <<>> /\ Last(rx) = Received("hop", Null)) =>
       /\ error.cause = ErrHop(ClosedMsg, currentProtocolForHandshake, hops[hopIdx])
       /\ <<error.cause.host, error.cause.port>> = Destination(hopIdx)
       /\ error.cause.protocol = ProtocolOfProxy(hopIdx)
       /\ sock = "closed"
  /\ (Failed /\ rx # <<>> /\ Last(rx) = Received("hop", <<>>)) =>
       /\ error.cause = ErrHop(HandshakeMsg, currentProtocolForHandshake, hops[hopIdx])
       /\ sock = "closed"

\* end of stream on the response of the second hop
C7_Witness ==
  /\ FailedOnHopRead(Null)
  /\ hopIdx = 2
  /\ sock = "closed"

\* a specifier with its credentials replaced: cred is "" or "user:pass@"
WithCredentials(proxy, cred) ==
  LET parts == split(proxy, SEP_SCHEME)
      origin == SubSeq(proxy, Len(parts[1]) + Len(SEP_SCHEME) + 1, Len(proxy))
      address == IF includes(origin, SEP_AT)
                 THEN SubSeq(origin, IndexOf(origin, SEP_AT, 1) + 1, Len(origin))
                 ELSE origin
  IN parts[1] \o SEP_SCHEME \o cred \o address

OtherCredentials == {<<>>, <<120, 58, 121, 64>>}   \* "", "x:y@"

\* what parseProxy makes of each specifier of the pool under other credentials
ParsedWith ==
  [x \in SpecifierPool \ Malformed |->
     [cred \in OtherCredentials |-> parseProxy(WithCredentials(x, cred))]]

\* the proxy lists that differ from ps in the credentials of the proxies
\* after the first only, each proxy given as what parseProxy makes of it
ParsedVariants(ps) ==
  {[i \in 1..Len(ps) |-> IF i = 1 THEN Parsed[ps[1]] ELSE ParsedWith[ps[i]][f[i]]] :
     f \in [1..Len(ps) -> OtherCredentials]}

\* the k-th CONNECT packet of a call on the proxy list whose parsed
\* specifiers are v
PacketOfCall(v, k) ==
  HandshakePacket(v[1], v[k][1],
                  IF k < Len(v) THEN <<v[k + 1][2], v[k + 1][3], v[k + 1][1]>>
                  ELSE <<target[1], target[2], Undefined>>)

\* C8: the credentials given to the packet builder are the first proxy's,
\* given exactly when the protocol spoken is http or socks4; and the packet
\* just written is, byte for byte, the one a call writes whose later proxies
\* carry other credentials.
C8_OnlyFirstCredentials ==
  LET k == Len(HopWire)
  IN k >= 1 =>
       /\ HopWire[k].auth =
            IF HopWire[k].protocol = P_http \/ HopWire[k].protocol = P_socks4
            THEN <<Parsed[proxies[1]][4], Parsed[proxies[1]][5]>>
            ELSE Undefined
       /\ \A v \in ParsedVariants(proxies) :
            /\ PacketOfCall(v, k).ok
            /\ PacketOfCall(v, k).bytes = HopWire[k].bytes

\* socks4 with a user id, then an http proxy with its own credentials: the
\* HTTP CONNECT of the second hop is out
C8_Witness ==
  /\ Len(proxies) = 2
  /\ Len(HopWire) = 2
  /\ HopWire[2].protocol = P_http
  /\ Truthy(Parsed[proxies[1]][4])
  /\ Truthy(Parsed[proxies[2]][4])
  /\ Parsed[proxies[2]][4] # Parsed[proxies[1]][4]

\* C9: a call issues at most one connect, as its first operation; close is
\* issued only by a failed call and is its last operation; once an
\* operation or a validation has failed nothing but that close follows: a
\* response that is end of stream or fails validation is the last thing read.
C9_NoRetry ==
  /\ \A k \in 1..Len(ioLog) : ioLog[k] = "connect" <=> k = 1
  /\ \A k \in 1..Len(ioLog) : ioLog[k] = "close" => (k = Len(ioLog) /\ Failed)
  /\ (Failed /\ conn = "conn") => Last(ioLog) = "close"
  /\ (Failed /\ conn = "null") => (ioLog = <<>> \/ ioLog = <<"connect">>)
  /\ Failed => left = 0
  /\ Len(wire) + Len(rx) <= Len(ioLog)
  /\ \A k \in 1..Len(HopRx) :
       (\/ HopRx[k].data = Null
        \/ ~checkResponse(ProtocolOfProxy(k), HopRx[k].data))
         => (k = Len(HopRx) /\ Failed /\ Last(rx) = HopRx[k] /\ Last(ioLog) = "close")

\* a call that failed at its second hop after writes and reads
C9_Witness ==
  /\ Failed
  /\ validated = 1
  /\ Len(ioLog) >= 6
  /\ Last(ioLog) = "close"

Terminated == pc \in {"returned", "failed"}

\* C10: every operation the call issues is given a timer of the full
\* timeout, which only runs down while the call awaits; and, the timers
\* running, every call that was made ends: it returns or it fails.
C10_EveryOperationBounded ==
  /\ [][(ioLog' # ioLog /\ pc' \in Awaiting) => left' = timeout]_vars
  /\ [][left' <= timeout /\ (pc \in Awaiting /\ pc' = pc => left' < left)]_vars
  /\ (pc # "idle") ~> Terminated

\* the read of the second hop starts with the full timeout
C10_Witness ==
  /\ pc = "r_hop"
  /\ hopIdx = 2
  /\ left = timeout

\* the operations of the hop loop: what follows the connect and the write
\* and read of each authentication packet, less the closing close
HopOps ==
  LET first == 2 + 2 * (Len(wire) - Len(HopWire))
      ops == IF HopWire = <<>> THEN <<>> ELSE SubSeq(ioLog, first, Len(ioLog))
  IN IF ops # <<>> /\ Last(ops) = "close" THEN SubSeq(ops, 1, Len(ops) - 1) ELSE ops

\* C11: the operations of the hop loop alternate, write then read, one write
\* per CONNECT packet; at most one response is outstanding; the packet of hop
\* k+1 is written only when the k responses before it were read and
\* validated; a call that returns has done one write, one read and one
\* validation per proxy.
C11_HopLoopSequential ==
  /\ \A k \in 1..Len(HopOps) : HopOps[k] = IF k % 2 = 1 THEN "write" ELSE "read"
  /\ Len(HopOps) \in {2 * Len(HopWire) - 1, 2 * Len(HopWire)}
  /\ Len(HopRx) \in {Len(HopWire) - 1, Len(HopWire)}
  /\ Len(HopWire) >= 1 => validated >= Len(HopWire) - 1
  /\ Len(HopRx) >= validated
  /\ (Len(HopRx) > validated) => (Failed /\ Last(rx) = Last(HopRx))
  /\ pc = "w_hop" => Len(HopOps) = 2 * Len(HopWire) - 1
  /\ pc = "r_hop" => (Len(HopOps) = 2 * Len(HopWire) /\ Len(HopRx) = Len(HopWire) - 1)
  /\ pc = "returned" =>
       /\ Len(HopOps) = 2 * Len(proxies)
       /\ Len(HopWire) = Len(proxies)
       /\ Len(HopRx) = Len(proxies)
       /\ validated = Len(proxies)

\* a chain of two proxies walked to the end behind a SOCKS5 negotiation
C11_Witness ==
  /\ pc = "returned"
  /\ Len(proxies) = 2
  /\ Len(wire) > Len(HopWire)
  /\ HopOps = <<"write", "read", "write", "read">>

IsAuth(m) == m.phase # "hop"
\* the packets the SOCKS5 negotiation wrote, and the replies it read
AuthWire == SelectSeq(wire, IsAuth)
AuthRx == SelectSeq(rx, IsAuth)

\* the negotiation has ended well: the proxy chose no authentication, or
\* chose username/password and accepted them
AuthDone ==
  \/ AuthRx = <<Received("methods", <<5, 0>>)>>
  \/ /\ Len(AuthRx) = 2
     /\ AuthRx[1] = Received("methods", <<5, 2>>)
     /\ AuthRx[2] = Received("userpass", <<1, 0>>)

\* the negotiation has failed: on a reply, or on its write, read or timer
AuthFailed == Failed /\ AuthWire # <<>> /\ ~AuthDone

\* C12: the SOCKS5 negotiation is run exactly when the first proxy is
\* socks5, once, as the first thing on the connection; every CONNECT packet
\* is written after it has ended well; no later proxy, socks5 or not, is
\* negotiated with; and a call whose negotiation failed has written no
\* CONNECT packet.
C12_AuthOnlyFirstHop ==
  conn = "conn" =>
     /\ (AuthWire # <<>>) <=> (Parsed[proxies[1]][1] = P_socks5)
     /\ \A k \in 1..Len(wire) :
          /\ wire[k].phase = "methods" <=> (k = 1 /\ Parsed[proxies[1]][1] = P_socks5)
          /\ wire[k].phase = "userpass" => k = 2
          /\ wire[k].phase = "hop" => (k > Len(AuthWire) /\ (AuthWire # <<>> => AuthDone))
     /\ \A k \in 1..Len(rx) : rx[k].phase # "hop" => k <= Len(AuthWire)
     /\ AuthFailed => HopWire = <<>>

\* socks5 with credentials, then a second socks5 proxy: one negotiation,
\* then the two CONNECT packets
C12_Witness ==
  /\ pc = "returned"
  /\ proxies = <<X_socks5_auth, X_socks5>>
  /\ Len(AuthWire) = 2
  /\ Len(HopWire) = 2
  /\ AuthDone

\* the failures of the SOCKS5 negotiation, by the kind the design gives them
NoUsernameMsg == "SOCKS5 selected Username/Password auth, but no username provided."
ProtocolErrors ==
  {"SOCKS5 auth method negotiation failed: connection closed or insufficient data.",
   "SOCKS5 auth method negotiation failed: invalid version.",
   "SOCKS5 authentication failed: unsupported method selected by proxy"}
AuthenticationErrors ==
  {"SOCKS5 username/password auth failed: connection closed or insufficient data.",
   "SOCKS5 username/password authentication failed.",
   "SOCKS5 authentication failed: no acceptable methods offered were accepted by the proxy."}
NegotiationErrors == ProtocolErrors \cup AuthenticationErrors \cup {NoUsernameMsg}

\* the reply to the method offer has been read
MethodReplied == rx # <<>> /\ rx[1].phase = "methods"
MethodReply == rx[1].data

FailedAs(kinds) == Failed /\ error.cause.msg \in kinds

\* the negotiation is over and the hop loop was entered
NegotiationPassed ==
  /\ error.cause.msg \notin NegotiationErrors
  /\ HopWire # <<>> \/ FailedAs({"TypeError: origin is undefined",
                                "SOCKS5: domain name too long"})

\* the replies other than METHOD 0x02
DispatchOther(m) ==
  IF m = Null \/ Len(m) < 2 \/ m[1] # 5
  THEN FailedAs(ProtocolErrors) /\ Len(wire) = 1 /\ Len(rx) = 1
  ELSE IF m[2] = 0
  THEN Len(AuthWire) = 1 /\ Len(AuthRx) = 1 /\ NegotiationPassed
  ELSE IF m[2] = 255
  THEN /\ FailedAs(AuthenticationErrors)
       /\ Len(wire) = 1 /\ Len(rx) = 1
  ELSE /\ FailedAs(ProtocolErrors)
       /\ error.cause.status = m[2]
       /\ Len(wire) = 1 /\ Len(rx) = 1

\* METHOD 0x02: the username/password packet is sent and its 2-byte reply
\* decides
SubNegotiation ==
  /\ Len(wire) >= 2
  /\ wire[2].phase = "userpass"
  /\ wire[2].bytes = userPassAuthPacket(Parsed[proxies[1]][4], Parsed[proxies[1]][5])
  /\ Len(AuthWire) = 2
  /\ Len(rx) >= 2 =>
       /\ rx[2].phase = "userpass"
       /\ Len(AuthRx) = 2
       /\ IF rx[2].data # Null /\ Len(rx[2].data) = 2
             /\ rx[2].data[1] = 1 /\ rx[2].data[2] = 0
          THEN NegotiationPassed
          ELSE FailedAs(AuthenticationErrors) /\ Len(wire) = 2 /\ Len(rx) = 2

\* C13 (as claimed): a short reply or a wrong version fails as a protocol
\* error; METHOD 0x00 ends the negotiation with nothing more sent or read,
\* username or not; METHOD 0x02 sends the username/password packet and
\* passes exactly on the reply 01 00; METHOD 0xff fails as an authentication
\* error; any other method fails as a protocol error.
C13_MethodDispatch ==
  MethodReplied =>
     IF MethodReply # Null /\ Len(MethodReply) = 2 /\ MethodReply = <<5, 2>>
     THEN SubNegotiation
     ELSE DispatchOther(MethodReply)

\* C13 (amended): as claimed, but METHOD 0x02 sends the username/password
\* packet only when a username was supplied; selected without one, the call
\* fails at once, nothing more sent or read.
C13_MethodDispatchByUsername ==
  MethodReplied =>
     IF MethodReply # Null /\ Len(MethodReply) = 2 /\ MethodReply = <<5, 2>>
     THEN IF Truthy(Parsed[proxies[1]][4])
          THEN SubNegotiation
          ELSE FailedAs({NoUsernameMsg}) /\ Len(wire) = 1 /\ Len(rx) = 1
     ELSE DispatchOther(MethodReply)

\* username/password chosen and refused with status 1
C13_Witness ==
  /\ Len(rx) = 2
  /\ rx[1] = Received("methods", <<5, 2>>)
  /\ rx[2] = Received("userpass", <<1, 1>>)
  /\ FailedAs(AuthenticationErrors)
  /\ error.cause.status = 1

\* C14: the method offer is 05, the number of methods, the methods: method
\* 0 always, method 2 exactly when the first proxy was given a non-empty
\* username, and no other.
C14_MethodOffer ==
  (wire # <<>> /\ wire[1].phase = "methods") =>
     LET offer == wire[1].bytes
         methods == {offer[k] : k \in 3..Len(offer)}
         username == Parsed[proxies[1]][4]
     IN /\ Len(offer) >= 3
        /\ offer[1] = 5
        /\ offer[2] = Len(offer) - 2
        /\ offer[2] = Cardinality(methods)
        /\ 0 \in methods
        /\ 2 \in methods <=> (username # Null /\ username # <<>>)
        /\ methods \subseteq {0, 2}

\* the offer of a call with a username: both methods
C14_Witness ==
  /\ wire # <<>>
  /\ wire[1].phase = "methods"
  /\ wire[1].bytes = <<5, 2, 0, 2>>
  /\ Parsed[proxies[1]][4] = <<117>>

\* the hosts a handshake can name, and those that are dotted-decimal IPv4
HostPool == {Parsed[x][2] : x \in SpecifierPool \ Malformed} \cup {t[1] : t \in Targets}
IPv4Hosts == {h \in HostPool : isIPv4(h)}

\* the user id a socks4 packet carries
UserIdBytes(auth) ==
  IF auth # Undefined /\ Truthy(auth[1]) THEN encode(auth[1]) ELSE <<>>

\* C15 (as claimed): a socks4 CONNECT packet is written only for a
\* destination that is a dotted-decimal IPv4 literal, and carries 04 01, the
\* port, the 4 address bytes, the user id and a closing 00; for any other
\* destination the call fails, the connection closed, with no packet
\* written for that hop.
C15_Socks4NeedsIPv4 ==
  \A k \in 1..Len(HopWire) :
     HopWire[k].protocol = P_socks4 =>
        /\ Destination(k)[1] \in IPv4Hosts
        /\ Len(HopWire[k].bytes) = 2 + 2 + 4 + Len(UserIdBytes(HopWire[k].auth)) + 1
        /\ SubSeq(HopWire[k].bytes, 5, 8) = ipAddrToBytes(Destination(k)[1])

\* a dotted-decimal IPv4 literal: four parts of one to three digits, each a
\* number up to 255
IsIPv4Literal(h) ==
  LET parts == split(h, SEP_DOT)
  IN /\ Len(parts) = 4
     /\ \A i \in 1..4 :
          /\ Len(parts[i]) \in 1..3
          /\ \A j \in 1..Len(parts[i]) : IsDigit(parts[i][j])
          /\ DigitsValue(parts[i]) <= 255
Octets(h) == [i \in 1..4 |-> DigitsValue(split(h, SEP_DOT)[i])]
PortOctets(n) == <<n \div 256, n % 256>>

\* C16: the socks5 CONNECT packet is 05 01 00, then 01 and the four octets
\* for an IPv4 literal, or 03, the length and the bytes of the name for any
\* other host of at most 255 bytes, then the port; for a longer name
\* building fails; credentials given to the builder change nothing.
C16_Socks5Address ==
  (applied.fn = "generatePacket" /\ applied.done /\ applied.args[1] = P_socks5) =>
     LET host == applied.args[2][1]
         port == applied.args[2][2]
         out == applied.out
     IN IF IsIPv4Literal(host)
        THEN out.ok /\ out.bytes = <<5, 1, 0, 1>> \o Octets(host) \o PortOctets(port)
        ELSE IF Len(host) <= 255
        THEN out.ok /\ out.bytes = <<5, 1, 0, 3, Len(host)>> \o host \o PortOctets(port)
        ELSE ~out.ok

\* the longest name that is taken, built with credentials at hand
C16_Witness ==
  /\ applied.fn = "generatePacket"
  /\ applied.done
  /\ applied.args[1] = P_socks5
  /\ Len(applied.args[2][1]) = 255
  /\ applied.args[3] # Undefined
  /\ applied.out.ok
  /\ applied.out.bytes[5] = 255

\* the text of a response up to its first CRLF
FirstLine(data) ==
  IF \E i \in 1..Len(data) : IsAt(data, CRLF, i)
  THEN SubSeq(data, 1, Min({i \in 1..Len(data) : IsAt(data, CRLF, i)}) - 1)
  ELSE data

\* C17: checkResponse gives a boolean for every protocol tag and every
\* response, the empty one included: for socks5 true exactly for 05 00 and
\* what follows, for socks4 for 00 5a and what follows, for http when the
\* first line, in lower case, holds "200 connection established"; false for
\* every other tag.
C17_CheckResponseTotal ==
  (applied.fn = "checkResponse" /\ applied.done) =>
     LET protocol == applied.args[1]
         data == applied.args[2]
         line == toLowerCase(FirstLine(data))
     IN /\ applied.out \in BOOLEAN
        /\ protocol = P_socks5 =>
             (applied.out <=> (Len(data) >= 2 /\ SubSeq(data, 1, 2) = <<5, 0>>))
        /\ protocol = P_socks4 =>
             (applied.out <=> (Len(data) >= 2 /\ SubSeq(data, 1, 2) = <<0, 90>>))
        /\ protocol = P_http =>
             (applied.out <=> \E i \in 1..Len(line) : IsAt(line, T_200, i))
        /\ protocol \notin {P_socks5, P_socks4, P_http} => ~applied.out

\* an HTTP response whose second line only reads 200: refused
C17_Witness ==
  /\ applied.fn = "checkResponse"
  /\ applied.done
  /\ applied.args = <<P_http, R_http_second>>
  /\ applied.out = FALSE

\* C20 (as claimed): the username/password packet is 01, the number of
\* username bytes, the username, the number of password bytes, the
\* password, whatever their lengths.
C20_LengthFields ==
  (applied.fn = "userPassAuthPacket" /\ applied.done) =>
     LET user == applied.args[1]
         pass == IF applied.args[2] = Null THEN <<>> ELSE applied.args[2]
         out == applied.out
     IN /\ Len(out) = 3 + Len(user) + Len(pass)
        /\ out[1] = 1
        /\ out[2] = Len(user)
        /\ SubSeq(out, 3, 2 + Len(user)) = user
        /\ out[3 + Len(user)] = Len(pass)
        /\ SubSeq(out, 4 + Len(user), Len(out)) = pass

\* C18 (as claimed): when the call returns, nothing a proxy sent in a
\* handshake is still unread on the connection; and the response read of
\* hop k takes bytes of the reply to the CONNECT packet of hop k only, none
\* of an earlier reply and none of the target.
C18_TransparentStream ==
  /\ pc = "returned" => \A i \in 1..Len(unread) : unread[i].src = FromTarget
  /\ \A j \in 1..Len(taken) :
       rx[j].phase = "hop" => taken[j] \subseteq {FromHop(j - Len(AuthRx))}

RECURSIVE Flatten(_)
Flatten(ss) == IF ss = <<>> THEN <<>> ELSE ss[1] \o Flatten(SubSeq(ss, 2, Len(ss)))

IsPrefix(a, b) == Len(a) <= Len(b) /\ SubSeq(b, 1, Len(a)) = a

\* a SOCKS5 proxy that asks for no authentication and follows the exchange:
\* it takes the first bytes it is sent as the method offer 05, n, n methods
\* and answers 05 00 when method 0 is among them; it takes what comes next
\* as the request, and accepts and answers 05 00 00 01 and six more bytes
\* when that is a CONNECT request 05 01 00 ...; anything else it refuses
Socks5Proxy(received) ==
  LET offered == /\ Len(received) >= 2
                 /\ received[1] = 5
                 /\ Len(received) >= 2 + received[2]
      methods == {received[i] : i \in 3..(2 + received[2])}
      request == SubSeq(received, 3 + received[2], Len(received))
      asked == Len(request) >= 4 /\ SubSeq(request, 1, 3) = <<5, 1, 0>>
  IN IF ~offered THEN [replies |-> <<>>, accepted |-> FALSE]
     ELSE IF 0 \notin methods THEN [replies |-> <<5, 255>>, accepted |-> FALSE]
     ELSE IF ~asked THEN [replies |-> <<5, 0>>, accepted |-> FALSE]
     ELSE [replies |-> <<5, 0, 5, 0, 0, 1, 0, 0, 0, 0, 0, 0>>, accepted |-> TRUE]

Bytes(entries) == Flatten([i \in 1..Len(entries) |-> entries[i].bytes])
Data(entries) == Flatten([i \in 1..Len(entries) |-> entries[i].data])

\* what the call has written to the k-th proxy and what it has read as
\* coming from it, by the time it returns
SentTo(k) == IF k = 1 THEN Bytes(AuthWire) \o HopWire[1].bytes ELSE HopWire[k].bytes
ReadFrom(k) == IF k = 1 THEN Data(AuthRx) \o HopRx[1].data ELSE HopRx[k].data

\* C19 (as claimed): when the call returns and what it read from a socks5
\* proxy of the chain, first or not, is what such a proxy answers with, that
\* proxy has accepted a CONNECT request.
C19_ValidatedReplyIsConnectReply ==
  pc = "returned" =>
     \A k \in 1..Len(proxies) :
        (/\ ProtocolOfProxy(k) = P_socks5
         /\ IsPrefix(ReadFrom(k), Socks5Proxy(SentTo(k)).replies))
          => Socks5Proxy(SentTo(k)).accepted

=============================================================================
